---- MODULE Spec2Model ----
(***************************************************************************)
(* Two raylib demo programs, each a single-threaded frame loop:            *)
(*                                                                         *)
(*   rust-memory-stress-test  (the "memory program"):  20 moving circles,  *)
(*       a rotating rectangle and a buffer of 1000-byte chunks that is     *)
(*       filled and trimmed every frame while stress is enabled.           *)
(*   rust-object-stress-test  (the "object program"):  a pool of circles,  *)
(*       rectangles and cubes regenerated on every parameter key.          *)
(*                                                                         *)
(* Conventions of the model                                                *)
(*   - f32 quantities are fixed-point integers in thousandths: positions   *)
(*     and extents in 1/1000 pixel, rotations in 1/1000 degree, the frame  *)
(*     time in milliseconds.  Speeds stay in pixels (degrees) per second,  *)
(*     so `x += speed * dt` is x + speed * dt in these units.  Rounding    *)
(*     of f32 is not modelled.                                             *)
(*   - A Vec of shapes is the record [len, head]: its exact length and its *)
(*     first MaxTracked elements.  The loops of the code treat every       *)
(*     element alike and independently, so the tracked elements stand for  *)
(*     all of them.                                                        *)
(*   - The random generator is a nondeterministic choice of "words", each  *)
(*     mapped to a sample of the ranges the code draws from.               *)
(*   - Colours, the camera, the frame-time statistics and the text overlay *)
(*     are written or drawn but never read back by the logic; they are     *)
(*     left out.                                                           *)
(***************************************************************************)
EXTENDS Integers, Sequences, FiniteSets, TLC

VARIABLES
    pc,                 \* position of the frame loop
    ticks,              \* number of frames begun (model bookkeeping)
    delta_time,         \* get_frame_time() of the current frame, in ms
    keys,               \* keys for which is_key_pressed() is true this frame
    circles,            \* Vec<Circle>
    rectangles,         \* Vec<Rectangle2D>            (object program)
    cubes,              \* Vec<Cube>                   (object program)
    render_mode,        \* RenderMode                  (object program)
    shape_type,         \* ShapeType                   (object program)
    base_object_count,  \* i32                         (object program)
    power_multiplier,   \* i32                         (object program)
    rotation,           \* f32, rotating rectangle     (memory program)
    stress_enabled,     \* bool                        (memory program)
    stress_level,       \* usize                       (memory program)
    objects_created,    \* i32                         (memory program)
    objects             \* Vec<Vec<u8>>, each chunk named by when it was pushed

vars == <<pc, ticks, delta_time, keys, circles, rectangles, cubes,
          render_mode, shape_type, base_object_count, power_multiplier,
          rotation, stress_enabled, stress_level, objects_created, objects>>

poolVars == <<circles, rectangles, cubes>>
paramVars == <<render_mode, shape_type, base_object_count, power_multiplier>>
memVars == <<rotation, stress_enabled, stress_level, objects_created, objects>>

----------------------------------------------------------------------------
(* Bounds of the exploration                                               *)

\* frames explored by the frame-loop specifications
MaxTicks == 3

\* elements of a Vec of shapes whose fields are tracked
MaxTracked == 1

\* frame times explored, in ms: a repeated frame, one second, a ten-second stall
DtSet == {0, 1000, 10000}

\* the values the random generator is let to produce
Words == {"lo", "hi"}

----------------------------------------------------------------------------
(* Arithmetic                                                              *)

Min(a, b) == IF a < b THEN a ELSE b

Max(a, b) == IF a > b THEN a ELSE b

\* a + b on i32 for a, b >= 0, wrapping in two's complement as a release
\* build does (a debug build panics instead); computed without leaving i32
I32Add(a, b) ==
    IF a > 2147483647 - b
    THEN (a - 2147483647 - 1) + (b - 2147483647 - 1)
    ELSE a + b

\* f32 literals of the code, in thousandths
Milli(n) == n * 1000

----------------------------------------------------------------------------
(* Vec of shapes                                                           *)

VecNew == [len |-> 0, head |-> <<>>]

\* `for _ in 0..n { v.push(...) }`; es are the elements the first pushes build
VecPushN(v, n, es) ==
    LET room == MaxTracked - Len(v.head)
    IN  [len  |-> v.len + Max(n, 0),
         head |-> v.head \o SubSeq(es, 1, Min(Max(n, 0), room))]

\* the words one fill loop draws for the elements that are tracked
Draws == [1..MaxTracked -> Words]

\* the words one call of initialize_objects draws: a for its first fill loop,
\* b for its second (the rectangles of the Mixed branch)
Rng == [a : Draws, b : Draws]

\* the word "lo" for every draw
LoRng == [a |-> [i \in 1..MaxTracked |-> "lo"], b |-> [i \in 1..MaxTracked |-> "lo"]]

----------------------------------------------------------------------------
(* Memory program: rust-memory-stress-test/src/main.rs                     *)

screen_width == 800

objects_retained == 1000

stress_objects_per_level == <<100, 1000, 10000>>

\* number of circles the memory program creates
MemCircleCount == 20

MemKeys == {"KEY_G", "KEY_ONE", "KEY_TWO", "KEY_THREE", "KEY_R"}

\* the sets of keys explored as pressed in one frame: none, one, two, or all
MemKeyChoices == {ks \in SUBSET MemKeys : Cardinality(ks) <= 2 \/ ks = MemKeys}

\* a Circle drawn from x 0..800, y 300..500, radius 5..25, speed 50..250
MemCircleOf(w) ==
    IF w = "lo"
    THEN [x |-> 0, y |-> Milli(300), radius |-> Milli(5), speed |-> 50]
    ELSE [x |-> Milli(799), y |-> Milli(499), radius |-> Milli(10), speed |-> 100]

\* one pass of the loop body over a circle
MemUpdateCircle(c, dt) ==
    LET x1 == c.x + c.speed * dt
    IN  [c EXCEPT !.x = IF x1 > Milli(screen_width) + c.radius
                        THEN 0 - c.radius
                        ELSE x1]

\* `for circle in &mut circles { ... }`
MemUpdateCircles(v, dt) ==
    [v EXCEPT !.head = [i \in DOMAIN v.head |-> MemUpdateCircle(v.head[i], dt)]]

\* KEY_G
ToggleStress(enabled, ks) ==
    IF "KEY_G" \in ks THEN ~enabled ELSE enabled

\* KEY_ONE, KEY_TWO, KEY_THREE, tested in this order
SelectLevel(level, ks) ==
    LET l1 == IF "KEY_ONE" \in ks THEN 1 ELSE level
        l2 == IF "KEY_TWO" \in ks THEN 2 ELSE l1
        l3 == IF "KEY_THREE" \in ks THEN 3 ELSE l2
    IN  l3

\* mutant of ResetObjects: toggling the stress flag also clears the buffer
ResetObjects_OnToggle(objs, ks) ==
    IF "KEY_R" \in ks \/ "KEY_G" \in ks THEN <<>> ELSE objs

\* KEY_R: objects.clear()
ResetObjects(objs, ks) ==
    IF "KEY_R" \in ks THEN <<>> ELSE objs

\* mutant of ResetCreated: the reset forgets the counter
ResetCreated_Kept(created, ks) == created

\* KEY_R: objects_created = 0
ResetCreated(created, ks) ==
    IF "KEY_R" \in ks THEN 0 ELSE created

\* the chunk pushed by iteration i of the push loop of frame t; every chunk is
\* vec![0; 1000], so a chunk is told from another only by when it was pushed
Chunk(t, i) == t * stress_objects_per_level[3] + i

\* the push loop of frame t: n chunks appended at the tail
PushObjects(objs, n, t) ==
    objs \o [i \in 1..n |-> Chunk(t, i)]

\* mutant of CountCreated: the counter follows what the buffer can retain
CountCreated_Retained(created, n) ==
    I32Add(created, Min(n, objects_retained))

\* the push loop: n times `objects_created += 1` on an i32
CountCreated(created, n) ==
    I32Add(created, n)

\* mutant of LimitObjects: the drained range is one chunk short
LimitObjects_OffByOne(objs) ==
    IF Len(objs) > objects_retained
    THEN SubSeq(objs, Len(objs) - objects_retained, Len(objs))
    ELSE objs

\* mutant of LimitObjects: the tail is cut off and the oldest chunks stay
LimitObjects_Truncate(objs) ==
    IF Len(objs) > objects_retained
    THEN SubSeq(objs, 1, objects_retained)
    ELSE objs

\* objects.drain(0..(len - objects_retained)) when len > objects_retained
LimitObjects(objs) ==
    IF Len(objs) > objects_retained
    THEN SubSeq(objs, Len(objs) - objects_retained + 1, Len(objs))
    ELSE objs

MemInit ==
    /\ pc = "update"
    /\ ticks = 0
    /\ delta_time = 0
    /\ keys = {}
    /\ \E ws \in Draws :
           circles = VecPushN(VecNew, MemCircleCount,
                              [i \in DOMAIN ws |-> MemCircleOf(ws[i])])
    /\ rectangles = VecNew
    /\ cubes = VecNew
    /\ render_mode = "Mode2D"
    /\ shape_type = "Circle"
    /\ base_object_count = 0
    /\ power_multiplier = 0
    /\ rotation = 0
    /\ stress_enabled = FALSE
    /\ stress_level = 1
    /\ objects_created = 0
    /\ objects = <<>>

\* loop head, frame time, rotation and circle positions
MemUpdate ==
    /\ pc = "update"
    /\ ticks < MaxTicks
    /\ \E dt \in DtSet :
          /\ delta_time' = dt
          /\ rotation' = rotation + 90 * dt
          /\ circles' = MemUpdateCircles(circles, dt)
    /\ ticks' = ticks + 1
    /\ pc' = "input"
    /\ UNCHANGED <<keys, rectangles, cubes, paramVars, stress_enabled,
                   stress_level, objects_created, objects>>

\* window_should_close() ends the loop
MemClose ==
    /\ pc = "update"
    /\ pc' = "closed"
    /\ UNCHANGED <<ticks, delta_time, keys, poolVars, paramVars, memVars>>

\* the five is_key_pressed tests
MemInput ==
    /\ pc = "input"
    /\ \E ks \in MemKeyChoices :
          /\ keys' = ks
          /\ stress_enabled' = ToggleStress(stress_enabled, ks)
          /\ stress_level' = SelectLevel(stress_level, ks)
          /\ objects' = ResetObjects(objects, ks)
          /\ objects_created' = ResetCreated(objects_created, ks)
    /\ pc' = "stress"
    /\ UNCHANGED <<ticks, delta_time, poolVars, paramVars, rotation>>

\* the memory stress step
MemStress ==
    /\ pc = "stress"
    /\ IF stress_enabled
       THEN LET objects_per_frame == stress_objects_per_level[stress_level]
            IN  /\ objects' = LimitObjects(PushObjects(objects, objects_per_frame, ticks))
                /\ objects_created' = CountCreated(objects_created, objects_per_frame)
       ELSE UNCHANGED <<objects, objects_created>>
    /\ pc' = "draw"
    /\ UNCHANGED <<ticks, delta_time, keys, poolVars, paramVars, rotation,
                   stress_enabled, stress_level>>

\* drawing reads the state and changes none of it
MemDraw ==
    /\ pc = "draw"
    /\ pc' = "update"
    /\ UNCHANGED <<ticks, delta_time, keys, poolVars, paramVars, memVars>>

MemNext == MemUpdate \/ MemClose \/ MemInput \/ MemStress \/ MemDraw

SpecMem == MemInit /\ [][MemNext]_vars

----------------------------------------------------------------------------
(* Object program: rust-object-stress-test/src/main.rs                     *)

ObjKeys == {"KEY_TAB", "KEY_S", "KEY_UP", "KEY_DOWN", "KEY_RIGHT", "KEY_LEFT"}

\* the sets of keys explored as pressed in one frame: none, one, two, or all
ObjKeyChoices == {ks \in SUBSET ObjKeys : Cardinality(ks) <= 2 \/ ks = ObjKeys}

\* a Circle drawn from x 0..800, y 100..500, radius 5..25, speed 50..250
CircleOf(w) ==
    IF w = "lo"
    THEN [x |-> 0, y |-> Milli(100), radius |-> Milli(5), speed |-> 50]
    ELSE [x |-> Milli(799), y |-> Milli(499), radius |-> Milli(10), speed |-> 100]

\* a Rectangle2D drawn from x 0..800, y 100..500, width and height 10..50,
\* speed 30..180
RectangleOf(w) ==
    IF w = "lo"
    THEN [x |-> 0, y |-> Milli(100), width |-> Milli(10), height |-> Milli(10),
          speed |-> 30]
    ELSE [x |-> Milli(799), y |-> Milli(499), width |-> Milli(49),
          height |-> Milli(49), speed |-> 179]

\* a Cube drawn from position -10..10, -5..5, -10..10, size 0.5..2.5 per axis,
\* rotation 0..360
CubeOf(w) ==
    IF w = "lo"
    THEN [position |-> <<Milli(-10), Milli(-5), Milli(-10)>>,
          size |-> <<500, 500, 500>>, rotation |-> 0]
    ELSE [position |-> <<Milli(9), Milli(4), Milli(9)>>,
          size |-> <<2499, 2499, 2499>>, rotation |-> Milli(350)]

\* the structs the first pushes of a fill loop build from the words ws
Circles(ws) == [i \in DOMAIN ws |-> CircleOf(ws[i])]

Rectangles(ws) == [i \in DOMAIN ws |-> RectangleOf(ws[i])]

Cubes(ws) == [i \in DOMAIN ws |-> CubeOf(ws[i])]

\* i32::pow by repeated multiplication; no product of the program leaves i32
RECURSIVE I32Pow(_, _)
I32Pow(b, e) == IF e <= 0 THEN 1 ELSE b * I32Pow(b, e - 1)

\* mutant of get_actual_object_count: the exponent is not reduced by one
get_actual_object_count_OffByOne(base, multiplier) ==
    base * I32Pow(10, multiplier)

get_actual_object_count(base, multiplier) ==
    base * I32Pow(10, multiplier - 1)

\* mutant of ClearAll: cubes.clear() is missing
ClearAll_KeepCubes(st) ==
    [st EXCEPT !.circles = VecNew, !.rectangles = VecNew]

\* circles.clear(); rectangles.clear(); cubes.clear()
ClearAll(st) ==
    [st EXCEPT !.circles = VecNew, !.rectangles = VecNew, !.cubes = VecNew]

\* st is the record of the locals of main the call passes: the three Vecs by
\* &mut, the parameters by value
initialize_objects(st, rng) ==
    LET actual_count == get_actual_object_count(st.base_object_count,
                                                st.power_multiplier)
        half_count == actual_count \div 2
        c == ClearAll(st)
    IN  IF c.render_mode = "Mode2D"
        THEN CASE c.shape_type = "Circle" ->
                    [c EXCEPT !.circles =
                        VecPushN(c.circles, Min(actual_count, 10000), Circles(rng.a))]
               [] c.shape_type = "Rectangle" ->
                    [c EXCEPT !.rectangles =
                        VecPushN(c.rectangles, Min(actual_count, 10000), Rectangles(rng.a))]
               [] c.shape_type = "Mixed" ->
                    [c EXCEPT !.circles =
                        VecPushN(c.circles, Min(half_count, 5000), Circles(rng.a)),
                              !.rectangles =
                        VecPushN(c.rectangles, Min(half_count, 5000), Rectangles(rng.b))]
        ELSE [c EXCEPT !.cubes =
                 VecPushN(c.cubes, Min(actual_count, 5000), Cubes(rng.a))]

\* mutant of UpdateCircle: a circle past the right edge restarts at x = 0
UpdateCircle_WrapToZero(circle, dt) ==
    LET x1 == circle.x + circle.speed * dt
    IN  [circle EXCEPT !.x = IF x1 > Milli(800) + circle.radius THEN 0 ELSE x1]

\* the loop bodies of update_animations
UpdateCircle(circle, dt) ==
    LET x1 == circle.x + circle.speed * dt
    IN  [circle EXCEPT !.x = IF x1 > Milli(800) + circle.radius
                             THEN 0 - circle.radius
                             ELSE x1]

UpdateRect(rect, dt) ==
    LET x1 == rect.x + rect.speed * dt
    IN  [rect EXCEPT !.x = IF x1 > Milli(800) + rect.width
                           THEN 0 - rect.width
                           ELSE x1]

UpdateCube(cube, dt) ==
    LET r1 == cube.rotation + 45 * dt
    IN  [cube EXCEPT !.rotation = IF r1 > Milli(360) THEN r1 - Milli(360) ELSE r1]

\* st is the record of the loop's locals; update_animations changes the Vecs
update_animations(st, dt) ==
    [st EXCEPT
        !.circles.head    = [i \in DOMAIN @ |-> UpdateCircle(@[i], dt)],
        !.rectangles.head = [i \in DOMAIN @ |-> UpdateRect(@[i], dt)],
        !.cubes.head      = [i \in DOMAIN @ |-> UpdateCube(@[i], dt)]]

\* the transitions of the parameters
ToggleMode(mode) == IF mode = "Mode2D" THEN "Mode3D" ELSE "Mode2D"

\* mutant of CycleShape: Rectangle goes back to Circle
CycleShape_SkipMixed(shape) ==
    CASE shape = "Circle" -> "Rectangle"
      [] shape = "Rectangle" -> "Circle"
      [] shape = "Mixed" -> "Circle"

CycleShape(shape) ==
    CASE shape = "Circle" -> "Rectangle"
      [] shape = "Rectangle" -> "Mixed"
      [] shape = "Mixed" -> "Circle"

IncBase(base) == Min(base + 10, 1000)

\* mutant of DecBase: the lower clamp is missing
DecBase_Unclamped(base) == base - 10

DecBase(base) == Max(base - 10, 10)

IncPower(multiplier) == Min(multiplier + 1, 5)

DecPower(multiplier) == Max(multiplier - 1, 1)

\* the key handlers: a parameter transition, then initialize_objects
KeyTab(st, rng) ==
    initialize_objects([st EXCEPT !.render_mode = ToggleMode(st.render_mode)], rng)

KeyS(st, rng) ==
    initialize_objects([st EXCEPT !.shape_type = CycleShape(st.shape_type)], rng)

KeyUp(st, rng) ==
    initialize_objects([st EXCEPT !.base_object_count = IncBase(st.base_object_count)], rng)

KeyDown(st, rng) ==
    initialize_objects([st EXCEPT !.base_object_count = DecBase(st.base_object_count)], rng)

\* mutant of KeyRight: the call of initialize_objects is missing
KeyRight_NoRegeneration(st, rng) ==
    [st EXCEPT !.power_multiplier = IncPower(st.power_multiplier)]

KeyRight(st, rng) ==
    initialize_objects([st EXCEPT !.power_multiplier = IncPower(st.power_multiplier)], rng)

KeyLeft(st, rng) ==
    initialize_objects([st EXCEPT !.power_multiplier = DecPower(st.power_multiplier)], rng)

\* the six is_key_pressed tests of a frame, in the order of the code.  Every
\* handler clears and refills the Vecs, so only the words drawn by the last
\* one pressed show in the result and one rng serves them all.
HandleInput(st, ks, rng) ==
    LET s1 == IF "KEY_TAB" \in ks THEN KeyTab(st, rng) ELSE st
        s2 == IF "KEY_S" \in ks THEN KeyS(s1, rng) ELSE s1
        s3 == IF "KEY_UP" \in ks THEN KeyUp(s2, rng) ELSE s2
        s4 == IF "KEY_DOWN" \in ks THEN KeyDown(s3, rng) ELSE s3
        s5 == IF "KEY_RIGHT" \in ks THEN KeyRight(s4, rng) ELSE s4
        s6 == IF "KEY_LEFT" \in ks THEN KeyLeft(s5, rng) ELSE s5
    IN  s6

\* the locals of main as a record, and back
Locals ==
    [render_mode |-> render_mode, shape_type |-> shape_type,
     base_object_count |-> base_object_count,
     power_multiplier |-> power_multiplier,
     circles |-> circles, rectangles |-> rectangles, cubes |-> cubes]

\* the locals before the first call of initialize_objects
NewLocals(mode, shape, base, multiplier) ==
    [render_mode |-> mode, shape_type |-> shape,
     base_object_count |-> base, power_multiplier |-> multiplier,
     circles |-> VecNew, rectangles |-> VecNew, cubes |-> VecNew]

SetLocals(st) ==
    /\ render_mode' = st.render_mode
    /\ shape_type' = st.shape_type
    /\ base_object_count' = st.base_object_count
    /\ power_multiplier' = st.power_multiplier
    /\ circles' = st.circles
    /\ rectangles' = st.rectangles
    /\ cubes' = st.cubes

\* the memory program's locals do not exist in the object program
NoMemLocals ==
    /\ rotation = 0
    /\ stress_enabled = FALSE
    /\ stress_level = 1
    /\ objects_created = 0
    /\ objects = <<>>

ObjInit ==
    /\ pc = "update"
    /\ ticks = 0
    /\ delta_time = 0
    /\ keys = {}
    /\ render_mode = "Mode2D"
    /\ shape_type = "Circle"
    /\ base_object_count = 100
    /\ power_multiplier = 1
    /\ \E rng \in Rng :
          LET st == initialize_objects(NewLocals("Mode2D", "Circle", 100, 1), rng)
          IN  /\ circles = st.circles
              /\ rectangles = st.rectangles
              /\ cubes = st.cubes
    /\ NoMemLocals

\* loop head, frame time and update_animations, for a frame time among dts
UpdateWith(dts) ==
    /\ pc = "update"
    /\ \E dt \in dts :
          /\ delta_time' = dt
          /\ SetLocals(update_animations(Locals, dt))
    /\ pc' = "input"
    /\ UNCHANGED <<keys, memVars>>

\* the draws that show in the locals after the keys ks are handled: none when
\* no handler runs, those of the second fill loop only when the last call of
\* initialize_objects takes the Mixed branch (the other words are fixed to "lo")
RngUsed(st, ks) ==
    LET end == HandleInput(st, ks, LoRng)
    IN  IF ks \cap ObjKeys = {}
        THEN {LoRng}
        ELSE IF end.render_mode = "Mode2D" /\ end.shape_type = "Mixed"
        THEN Rng
        ELSE [a : Draws, b : {LoRng.b}]

\* mutant of InputWith: update_animations runs after the input handling, on
\* the Vecs the handlers have just regenerated
InputWith_ThenAnimate(choices) ==
    /\ pc = "input"
    /\ \E ks \in choices :
          \E rng \in RngUsed(Locals, ks) :
             /\ keys' = ks
             /\ SetLocals(update_animations(HandleInput(Locals, ks, rng), delta_time))
    /\ pc' = "draw"
    /\ UNCHANGED <<ticks, delta_time, memVars>>

\* the input handling of a frame, for a set of pressed keys among choices
InputWith(choices) ==
    /\ pc = "input"
    /\ \E ks \in choices :
          \E rng \in RngUsed(Locals, ks) :
             /\ keys' = ks
             /\ SetLocals(HandleInput(Locals, ks, rng))
    /\ pc' = "draw"
    /\ UNCHANGED <<ticks, delta_time, memVars>>

ObjUpdate ==
    /\ ticks < MaxTicks
    /\ ticks' = ticks + 1
    /\ UpdateWith(DtSet)

ObjInput == InputWith(ObjKeyChoices)

\* drawing reads the state and changes none of it
ObjDraw ==
    /\ pc = "draw"
    /\ pc' = "update"
    /\ UNCHANGED <<ticks, delta_time, keys, poolVars, paramVars, memVars>>

\* window_should_close() ends the loop
ObjClose ==
    /\ pc = "update"
    /\ pc' = "closed"
    /\ UNCHANGED <<ticks, delta_time, keys, poolVars, paramVars, memVars>>

ObjNext == ObjUpdate \/ ObjInput \/ ObjDraw \/ ObjClose

SpecObj == ObjInit /\ [][ObjNext]_vars

(* The object program on frames of no duration with one key pressed in     *)
(* each: the whole parameter space, which MaxTicks frames do not reach.    *)

IdleUpdate ==
    /\ UNCHANGED ticks
    /\ UpdateWith({0})

OneKeyInput == InputWith({{k} : k \in ObjKeys})

KeysNext == IdleUpdate \/ OneKeyInput \/ ObjDraw \/ ObjClose

SpecKeys == ObjInit /\ [][KeysNext]_vars

(* The two programs side by side: a behaviour is one of either program.    *)

\* the memory program has no rendering parameters: MemInit leaves them 0,
\* which the object program's never are
InMemoryProgram == base_object_count = 0 /\ power_multiplier = 0

BothInit == MemInit \/ ObjInit

BothNext ==
    \/ InMemoryProgram /\ MemNext
    \/ ~InMemoryProgram /\ ObjNext

SpecBoth == BothInit /\ [][BothNext]_vars

(* initialize_objects on its own, with every parameter value of the        *)
(* documented ranges, called on empty Vecs and on the Vecs an earlier call *)
(* left.                                                                   *)

GenInit ==
    /\ pc = "call"
    /\ ticks = 0
    /\ delta_time = 0
    /\ keys = {}
    /\ render_mode \in {"Mode2D", "Mode3D"}
    /\ shape_type \in {"Circle", "Rectangle", "Mixed"}
    /\ base_object_count \in 10..1000
    /\ power_multiplier \in 1..5
    /\ \E before \in {NewLocals("Mode2D", "Circle", 100, 1),
                      initialize_objects(NewLocals("Mode2D", "Mixed", 100, 1), LoRng),
                      initialize_objects(NewLocals("Mode3D", "Circle", 100, 1), LoRng)} :
          /\ circles = before.circles
          /\ rectangles = before.rectangles
          /\ cubes = before.cubes
    /\ NoMemLocals

GenCall ==
    /\ pc = "call"
    /\ \E rng \in Rng : SetLocals(initialize_objects(Locals, rng))
    /\ pc' = "generated"
    /\ UNCHANGED <<ticks, delta_time, keys, memVars>>

GenNext == GenCall

SpecGen == GenInit /\ [][GenNext]_vars

----------------------------------------------------------------------------
(* Properties of the memory program, checked under SpecMem                 *)

\* C1: at the end of every tick, once the stress step has run, the stress
\* buffer retains at most objects_retained (1000) chunks, whatever keys were
\* pressed in this and the earlier ticks.
C1_RetainedAtMostCap ==
    pc = "draw" => Len(objects) <= objects_retained

\* a tick at level 3 with stress on: 10000 chunks pushed, 1000 retained
C1_Witness ==
    /\ pc = "draw"
    /\ stress_enabled
    /\ stress_level = 3
    /\ Len(objects) = objects_retained

C3_ResetEmptiesBufferAndCounter ==
    [][ (pc = "input" /\ "KEY_R" \in keys') =>
            (Len(objects') = 0 /\ objects_created' = 0) ]_vars

\* KEY_R alone in the second tick with stress still on: the first tick's step
\* had filled the buffer, and the reset has just emptied it
C3_Witness ==
    /\ pc = "stress"
    /\ ticks = 2
    /\ keys = {"KEY_R"}
    /\ stress_enabled
    /\ Len(objects) = 0
    /\ objects_created = 0

\* C13: the stress buffer is a FIFO.  An enabled stress step appends 100, 1000
\* or 10000 chunks (level 1, 2 or 3) at the tail and afterwards holds, in
\* append order, exactly the min(old length + appended, 1000) most recently
\* appended chunks: what is discarded is taken from the head.  The buffer is
\* always in append order, the oldest chunk first.
C13_StressBufferIsFifo ==
    /\ [](\A i \in 1..(Len(objects) - 1) : objects[i] < objects[i + 1])
    /\ [][ (pc = "stress" /\ stress_enabled) =>
              LET n == CASE stress_level = 1 -> 100
                         [] stress_level = 2 -> 1000
                         [] stress_level = 3 -> 10000
                  appended == objects \o [i \in 1..n |-> Chunk(ticks, i)]
                  kept == Min(Len(objects) + n, 1000)
              IN  /\ Len(objects') = kept
                  /\ objects' = SubSeq(appended, Len(appended) - kept + 1,
                                       Len(appended))
         ]_vars

\* level 2 in the first tick and level 1 in the second: the first 100 chunks of
\* the first tick have left at the head, the 100 of the second are at the tail
C13_Witness ==
    /\ pc = "draw"
    /\ ticks = 2
    /\ stress_enabled
    /\ stress_level = 1
    /\ Len(objects) = 1000
    /\ objects[1] = Chunk(1, 101)
    /\ objects[900] = Chunk(1, 1000)
    /\ objects[901] = Chunk(2, 1)
    /\ objects[1000] = Chunk(2, 100)

\* C14: only an enabled stress step and the reset change the stress buffer and
\* the objects-created counter.  A stress step with stress disabled, an input
\* step without KEY_R (toggling stress on or off and selecting a level
\* included), the update and the drawing leave both as they are; the stress
\* level is always 1, 2 or 3.
C14_OnlyStepAndResetChangeBuffer ==
    /\ [](stress_level \in {1, 2, 3})
    /\ [][ ((pc = "stress" /\ ~stress_enabled)
            \/ (pc = "input" /\ "KEY_R" \notin keys')
            \/ pc \notin {"stress", "input"}) =>
               (objects' = objects /\ objects_created' = objects_created)
         ]_vars

\* stress switched off in the second tick: the 100 chunks of the first tick
\* are still held and still counted at the render
C14_Witness ==
    /\ pc = "draw"
    /\ ticks = 2
    /\ keys = {"KEY_G"}
    /\ ~stress_enabled
    /\ Len(objects) = 100
    /\ objects[1] = Chunk(1, 1)
    /\ objects_created = 100

----------------------------------------------------------------------------
(* Properties of the object program                                        *)

Clamp(v, lo, hi) == Max(lo, Min(v, hi))

\* C4 (SpecKeys): the input step takes base_object_count to
\* clamp(old + 10, 10, 1000) on KEY_UP and to clamp(old - 10, 10, 1000) on
\* KEY_DOWN, power_multiplier to clamp(old + 1, 1, 5) on KEY_RIGHT and to
\* clamp(old - 1, 1, 5) on KEY_LEFT (UP before DOWN, RIGHT before LEFT, when
\* both are pressed), and leaves them alone otherwise; both stay in range, and
\* an adjustment at a bound leaves the value exactly at the bound.
C4_AdjustmentsClamp ==
    /\ [](base_object_count \in 10..1000 /\ power_multiplier \in 1..5)
    /\ [][ pc = "input" =>
            LET b1 == IF "KEY_UP" \in keys'
                      THEN Clamp(base_object_count + 10, 10, 1000)
                      ELSE base_object_count
                b2 == IF "KEY_DOWN" \in keys' THEN Clamp(b1 - 10, 10, 1000) ELSE b1
                m1 == IF "KEY_RIGHT" \in keys'
                      THEN Clamp(power_multiplier + 1, 1, 5)
                      ELSE power_multiplier
                m2 == IF "KEY_LEFT" \in keys' THEN Clamp(m1 - 1, 1, 5) ELSE m1
            IN  /\ base_object_count' = b2
                /\ power_multiplier' = m2
                /\ (keys' = {"KEY_DOWN"} /\ base_object_count = 10) =>
                       base_object_count' = 10
                /\ (keys' = {"KEY_UP"} /\ base_object_count = 1000) =>
                       base_object_count' = 1000
                /\ (keys' = {"KEY_LEFT"} /\ power_multiplier = 1) =>
                       power_multiplier' = 1
                /\ (keys' = {"KEY_RIGHT"} /\ power_multiplier = 5) =>
                       power_multiplier' = 5 ]_vars

\* KEY_DOWN has just been handled and the base count is at its lower bound
C4_Witness ==
    /\ pc = "draw"
    /\ keys = {"KEY_DOWN"}
    /\ base_object_count = 10
    /\ power_multiplier = 5

\* C5 (SpecKeys): KEY_S takes Circle to Rectangle, Rectangle to Mixed and Mixed
\* to Circle; from every shape type three applications return to it and one or
\* two do not.
C5_ShapeCycle ==
    /\ [][ (pc = "input" /\ "KEY_S" \in keys') =>
             \/ shape_type = "Circle" /\ shape_type' = "Rectangle"
             \/ shape_type = "Rectangle" /\ shape_type' = "Mixed"
             \/ shape_type = "Mixed" /\ shape_type' = "Circle" ]_vars
    /\ [](/\ CycleShape(CycleShape(CycleShape(shape_type))) = shape_type
          /\ CycleShape(shape_type) # shape_type
          /\ CycleShape(CycleShape(shape_type)) # shape_type)

\* KEY_S has just taken the shape type from Mixed back to Circle
C5_Witness ==
    /\ pc = "draw"
    /\ keys = {"KEY_S"}
    /\ shape_type = "Circle"

\* C6 (SpecGen): for base_count in 10..1000 and multiplier in 1..5 the actual
\* count is base_count * 10^(multiplier - 1), and initialize_objects leaves
\* min(actual, 10000) circles in 2D/Circle, min(actual, 10000) rectangles in
\* 2D/Rectangle and min(actual, 5000) cubes in 3D.
C6_GeneratedLengths ==
    pc = "generated" =>
        LET actual == base_object_count * 10 ^ (power_multiplier - 1)
        IN  /\ get_actual_object_count(base_object_count, power_multiplier) = actual
            /\ (render_mode = "Mode2D" /\ shape_type = "Circle") =>
                   circles.len = Min(actual, 10000)
            /\ (render_mode = "Mode2D" /\ shape_type = "Rectangle") =>
                   rectangles.len = Min(actual, 10000)
            /\ render_mode = "Mode3D" =>
                   cubes.len = Min(actual, 5000)

\* a generation that hits the cap of 5000 cubes
C6_Witness ==
    /\ pc = "generated"
    /\ render_mode = "Mode3D"
    /\ base_object_count = 1000
    /\ power_multiplier = 5
    /\ cubes.len = 5000

\* C7 (SpecKeys): in 2D/Mixed there are min(actual / 2, 5000) circles, as many
\* rectangles and no cubes (50, 50 and 0 for base 100, multiplier 1); in 3D
\* there are no circles and no rectangles; in 2D/Circle no rectangles and no
\* cubes; in 2D/Rectangle no circles and no cubes.
C7_MixedHalvesAndUnusedEmpty ==
    LET actual == base_object_count * 10 ^ (power_multiplier - 1)
        Empty(v) == v.len = 0 /\ v.head = <<>>
    IN  /\ (render_mode = "Mode2D" /\ shape_type = "Mixed") =>
               /\ circles.len = Min(actual \div 2, 5000)
               /\ rectangles.len = Min(actual \div 2, 5000)
               /\ Empty(cubes)
        /\ (render_mode = "Mode2D" /\ shape_type = "Mixed" /\
            base_object_count = 100 /\ power_multiplier = 1) =>
               (circles.len = 50 /\ rectangles.len = 50 /\ cubes.len = 0)
        /\ render_mode = "Mode3D" => (Empty(circles) /\ Empty(rectangles))
        /\ (render_mode = "Mode2D" /\ shape_type = "Circle") =>
               (Empty(rectangles) /\ Empty(cubes))
        /\ (render_mode = "Mode2D" /\ shape_type = "Rectangle") =>
               (Empty(circles) /\ Empty(cubes))

\* back in 2D/Mixed at base 100, multiplier 1 after a visit to 3D: KEY_TAB has
\* just regenerated the pool
C7_Witness ==
    /\ pc = "draw"
    /\ keys = {"KEY_TAB"}
    /\ render_mode = "Mode2D"
    /\ shape_type = "Mixed"
    /\ base_object_count = 100
    /\ power_multiplier = 1
    /\ circles.len = 50
    /\ rectangles.len = 50
    /\ cubes.len = 0

\* C8 (SpecObj): the animation step takes the x of every circle to x + speed*dt,
\* or to -radius when that exceeds 800 + radius, and the x of every rectangle
\* to x + speed*dt, or to -width when that exceeds 800 + width; it changes no
\* other field; after it x <= 800 + radius (800 + width).  A circle at x = 799
\* with radius 10 and speed 100 is at x = -10 after a step of one second.
C8_StepAdvancesAndWraps ==
    [][ (pc = "update" /\ pc' = "input") =>
          /\ circles'.len = circles.len
          /\ rectangles'.len = rectangles.len
          /\ DOMAIN circles'.head = DOMAIN circles.head
          /\ DOMAIN rectangles'.head = DOMAIN rectangles.head
          /\ \A i \in DOMAIN circles.head :
                LET c == circles.head[i]
                    adv == c.x + c.speed * delta_time'
                    x2 == IF adv > 800000 + c.radius THEN 0 - c.radius ELSE adv
                IN  /\ circles'.head[i] = [c EXCEPT !.x = x2]
                    /\ circles'.head[i].x <= 800000 + c.radius
                    /\ (c.x = 799000 /\ c.radius = 10000 /\ c.speed = 100 /\
                        delta_time' = 1000) => circles'.head[i].x = -10000
          /\ \A i \in DOMAIN rectangles.head :
                LET r == rectangles.head[i]
                    adv == r.x + r.speed * delta_time'
                    x2 == IF adv > 800000 + r.width THEN 0 - r.width ELSE adv
                IN  /\ rectangles'.head[i] = [r EXCEPT !.x = x2]
                    /\ rectangles'.head[i].x <= 800000 + r.width ]_vars

\* the first step, of one second, has wrapped the circle generated at x = 799
\* with radius 10 and speed 100 to x = -10
C8_Witness ==
    /\ pc = "input"
    /\ ticks = 1
    /\ delta_time = 1000
    /\ circles.len = 100
    /\ circles.head[1] = [CircleOf("hi") EXCEPT !.x = -10000]

\* C9 (SpecObj): every cube's rotation is in [0, 360) after each animation step.
C9_RotationNormalized ==
    \A i \in DOMAIN cubes.head :
        cubes.head[i].rotation >= 0 /\ cubes.head[i].rotation < 360000

\* C10 (SpecObj): an animation step with dt = 0 changes no circle, no rectangle
\* and no cube, and no length.
C10_ZeroStepChangesNothing ==
    [][ (pc = "update" /\ pc' = "input" /\ delta_time' = 0) =>
            (circles' = circles /\ rectangles' = rectangles /\ cubes' = cubes) ]_vars

----------------------------------------------------------------------------
(* Order of the phases of a tick, checked under SpecBoth                   *)

\* every tracked shape is as initialize_objects builds it, not yet moved
AsGenerated ==
    /\ \A i \in DOMAIN circles.head :
          circles.head[i] \in {CircleOf(w) : w \in Words}
    /\ \A i \in DOMAIN rectangles.head :
          rectangles.head[i] \in {RectangleOf(w) : w \in Words}
    /\ \A i \in DOMAIN cubes.head :
          cubes.head[i] \in {CubeOf(w) : w \in Words}

\* every tracked shape differs from every shape initialize_objects builds
Advanced ==
    /\ \A i \in DOMAIN circles.head :
          circles.head[i] \notin {CircleOf(w) : w \in Words}
    /\ \A i \in DOMAIN rectangles.head :
          rectangles.head[i] \notin {RectangleOf(w) : w \in Words}
    /\ \A i \in DOMAIN cubes.head :
          cubes.head[i] \notin {CubeOf(w) : w \in Words}

\* C11, as claimed: the animation step of a tick runs after that tick's input
\* handling and regeneration, so the objects regenerated in a tick of positive
\* frame time have been advanced by the time they are rendered.
C11_RegeneratedAdvancedBeforeRender ==
    (pc = "draw" /\ ~InMemoryProgram /\ keys # {} /\ delta_time > 0) => Advanced

\* C11, amended: the phases of a tick run in the order animation step, input
\* handling with regeneration, stress step (memory program), render; the Vecs
\* of shapes change in the animation step and the input handling only; the
\* objects regenerated in a tick are rendered as generated, whatever the frame
\* time of the tick.
C11_AnimationBeforeInput ==
    [][ /\ pc = "update" => pc' \in {"input", "closed"}
        /\ pc = "input" => pc' = IF InMemoryProgram THEN "stress" ELSE "draw"
        /\ pc = "stress" => pc' = "draw"
        /\ pc = "draw" => pc' = "update"
        /\ pc \notin {"update", "input"} => UNCHANGED poolVars
        /\ (pc = "input" /\ InMemoryProgram) => UNCHANGED poolVars
        /\ (pc = "input" /\ ~InMemoryProgram /\ keys' = {}) => UNCHANGED poolVars
        /\ (pc = "draw" /\ ~InMemoryProgram /\ keys # {}) => AsGenerated
      ]_vars

\* a circle regenerated by KEY_UP in a tick of one second is rendered at the
\* x = 799 it was generated at
C11_Witness ==
    /\ pc = "draw"
    /\ keys = {"KEY_UP"}
    /\ delta_time = 1000
    /\ circles.len = 110
    /\ circles.head[1] = CircleOf("hi")

----------------------------------------------------------------------------
(* Pool and parameters at render, checked under SpecObj                    *)

\* C12: at every render, the first included and whatever keys were pressed in
\* the tick, the lengths of circles, rectangles and cubes are those
\* initialize_objects yields for the current render mode, shape type, base
\* count and power multiplier, and stay within the caps: 10000 circles or 10000
\* rectangles in single-shape 2D, 5000 and 5000 in mixed 2D, 5000 cubes in 3D.
C12_PoolMatchesParametersAtRender ==
    pc = "draw" =>
        LET fresh == initialize_objects(
                         NewLocals(render_mode, shape_type,
                                   base_object_count, power_multiplier), LoRng)
        IN  /\ circles.len = fresh.circles.len
            /\ rectangles.len = fresh.rectangles.len
            /\ cubes.len = fresh.cubes.len
            /\ (render_mode = "Mode2D" /\ shape_type # "Mixed") =>
                   circles.len + rectangles.len <= 10000
            /\ (render_mode = "Mode2D" /\ shape_type = "Mixed") =>
                   (circles.len <= 5000 /\ rectangles.len <= 5000)
            /\ render_mode = "Mode3D" => cubes.len <= 5000

\* the render of a tick in which two keys were pressed, in 3D at multiplier
\* 10^3: more cubes asked for than the cap, 5000 in the pool
C12_Witness ==
    /\ pc = "draw"
    /\ Cardinality(keys) = 2
    /\ "KEY_RIGHT" \in keys
    /\ render_mode = "Mode3D"
    /\ power_multiplier = 4
    /\ cubes.len = 5000
    /\ circles.len = 0
    /\ rectangles.len = 0

====
